---- MODULE Spec2Model ----
(***************************************************************************)
(* Model of src/app.py, the Clock Report Processor: one run of the script  *)
(* over an uploaded workbook.  The run reads the sheet "Clock Detail       *)
(* Report", copies the original sheets, and for each of the two categories *)
(* filters the rows, writes the "Data" sheet, aggregates the earliest time *)
(* per (Company, Name, Account, DU ID), builds the masked pivot view,      *)
(* writes the formatted "Pivot" sheet and its summary table, and finally   *)
(* offers the workbook for download.                                       *)
(*                                                                         *)
(* Text is a sequence of one-character strings, so that substring search,  *)
(* case folding, number parsing and lexicographic order are computed.  A   *)
(* missing cell (pandas NaN) is the one-token sequence NaN.  A time cell   *)
(* is <<day, hour, minute>>, or NaT when it is empty or no date-time.      *)
(***************************************************************************)
EXTENDS Integers, Sequences, FiniteSets, TLC

\* ------------------------------------------------------------------ text

Digits == <<"0", "1", "2", "3", "4", "5", "6", "7", "8", "9">>

UpperCase ==
    <<"A", "B", "C", "D", "E", "F", "G", "H", "I", "J", "K", "L", "M",
      "N", "O", "P", "Q", "R", "S", "T", "U", "V", "W", "X", "Y", "Z">>

LowerCase ==
    <<"a", "b", "c", "d", "e", "f", "g", "h", "i", "j", "k", "l", "m",
      "n", "o", "p", "q", "r", "s", "t", "u", "v", "w", "x", "y", "z">>

In(c, s) == \E i \in 1..Len(s) : s[i] = c

IndexOf(c, s) == CHOOSE i \in 1..Len(s) : s[i] = c

\* The code point of a character: Python orders str values by code point.
Ord(c) ==
    IF In(c, Digits) THEN 47 + IndexOf(c, Digits)
    ELSE IF In(c, UpperCase) THEN 64 + IndexOf(c, UpperCase)
    ELSE IF In(c, LowerCase) THEN 96 + IndexOf(c, LowerCase)
    ELSE CASE c = " " -> 32
           [] c = "-" -> 45
           [] c = ":" -> 58
           [] OTHER -> 0

\* s < t for two str values (lexicographic by code point, a proper prefix first).
RECURSIVE StrLess(_, _)
StrLess(s, t) ==
    IF t = <<>> THEN FALSE
    ELSE IF s = <<>> THEN TRUE
    ELSE IF s[1] = t[1] THEN StrLess(Tail(s), Tail(t))
    ELSE Ord(s[1]) < Ord(t[1])

\* A missing cell, as pandas reads an empty spreadsheet cell.
NaN == <<"NaN">>

IsNa(cell) == cell = NaN

\* Series.astype(str): a missing cell becomes the text "nan".
AsTypeStr(cell) == IF IsNa(cell) THEN <<"n", "a", "n">> ELSE cell

\* DataFrame.fillna(""): a missing cell becomes the empty text.
FillNa(cell) == IF IsNa(cell) THEN <<>> ELSE cell

Lower(c) == IF In(c, UpperCase) THEN LowerCase[IndexOf(c, UpperCase)] ELSE c

\* Series.str.contains(pat, case=False) on one text, for a pattern of plain
\* letters: pat occurs in s at some offset, letters compared without case.
StrContains(s, pat) ==
    \E i \in 1..(Len(s) - Len(pat) + 1) :
        \A j \in 1..Len(pat) : Lower(s[i + j - 1]) = Lower(pat[j])

\* str.strip() on a header cell: leading and trailing blanks removed.
RECURSIVE LStrip(_)
LStrip(s) == IF s # <<>> /\ s[1] = " " THEN LStrip(Tail(s)) ELSE s

RECURSIVE RStrip(_)
RStrip(s) ==
    IF s # <<>> /\ s[Len(s)] = " " THEN RStrip(SubSeq(s, 1, Len(s) - 1)) ELSE s

Strip(s) == RStrip(LStrip(s))

RECURSIVE DecimalValue(_)
DecimalValue(s) ==
    IF s = <<>> THEN 0
    ELSE 10 * DecimalValue(SubSeq(s, 1, Len(s) - 1)) + (IndexOf(s[Len(s)], Digits) - 1)

IsDigits(s) == s # <<>> /\ \A i \in 1..Len(s) : In(s[i], Digits)

\* pd.to_numeric(errors='coerce') on one cell: the set holding the number the
\* cell parses to, empty (NaN) when it is missing or no number.
ToNumeric(cell) ==
    IF IsDigits(cell) THEN {DecimalValue(cell)}
    ELSE IF cell # <<>> /\ cell[1] = "-" /\ IsDigits(Tail(cell))
         THEN {0 - DecimalValue(Tail(cell))}
    ELSE {}

\* ------------------------------------------------------------------ time

NaT == <<>>

\* pd.to_datetime(errors='coerce') on one cell: a <<day, hour, minute>> cell is
\* that timestamp, anything else (an empty cell, a text that is no date) NaT.
ToDatetime(cell) == IF Len(cell) = 3 THEN cell ELSE NaT

\* Timestamp order: by date first, then time of day.
TsLess(a, b) ==
    \/ a[1] < b[1]
    \/ a[1] = b[1] /\ a[2] < b[2]
    \/ a[1] = b[1] /\ a[2] = b[2] /\ a[3] < b[3]

\* A variant of TsMin that takes the earliest time of day, whatever the date.
TsMinByTimeOfDay(cells) ==
    LET ts == {c \in cells : c # NaT}
    IN IF ts = {} THEN NaT
       ELSE CHOOSE m \in ts :
               \A o \in ts : m[2] < o[2] \/ (m[2] = o[2] /\ m[3] <= o[3])

\* GroupBy.min() of a datetime column: NaT is skipped; NaT when nothing is left.
TsMin(cells) ==
    LET ts == {c \in cells : c # NaT}
    IN IF ts = {} THEN NaT
       ELSE CHOOSE m \in ts : \A o \in ts : o = m \/ TsLess(m, o)

TwoDigits(n) == <<Digits[(n \div 10) + 1], Digits[(n % 10) + 1]>>

\* Series.dt.strftime('%H:%M:%S').fillna("-") on one value (seconds are 00).
StrfTime(ts) ==
    IF ts = NaT THEN <<"-">>
    ELSE TwoDigits(ts[2]) \o <<":">> \o TwoDigits(ts[3]) \o <<":", "0", "0">>

\* ---------------------------------------------------------------- tables

\* A table is [columns |-> the header cells, rows |-> the rows], a row being the
\* tuple of its cells in column order.  Positions are 1-based here: pandas'
\* iloc[:, 8] is cell 9 of a row.

source_sheet_name == "Clock Detail Report"

categories == <<"ECNB", "ECMW">>

\* The category name as text, the pattern str.contains searches for.
CategoryText(category) ==
    CASE category = "ECNB" -> <<"E", "C", "N", "B">>
      [] category = "ECMW" -> <<"E", "C", "M", "W">>

DataSheetName(category) ==
    CASE category = "ECNB" -> "Data ECNB"
      [] category = "ECMW" -> "Data ECMW"

PivotSheetName(category) ==
    CASE category = "ECNB" -> "Pivot ECNB"
      [] category = "ECMW" -> "Pivot ECMW"

MinColumns == 9

CategoryCol == 9

DistanceCol == 6

TimeCol == 5

DistanceLimit == 500

pivot_cols_base ==
    << <<"C", "o", "m", "p", "a", "n", "y">>,
       <<"N", "a", "m", "e">>,
       <<"A", "c", "c", "o", "u", "n", "t">>,
       <<"D", "U", " ", "I", "D">> >>

HasColumn(columns, name) == \E i \in 1..Len(columns) : columns[i] = name

\* The position of the column called name (the first one of that name).
ColumnIndex(columns, name) ==
    CHOOSE i \in 1..Len(columns) :
        columns[i] = name /\ \A j \in 1..(i - 1) : columns[j] # name

\* df_source.columns.astype(str).str.strip()
StripColumns(columns) == [i \in 1..Len(columns) |-> Strip(columns[i])]

RECURSIVE SelectRows(_, _)
SelectRows(rows, mask) ==
    IF rows = <<>> THEN <<>>
    ELSE (IF mask[1] THEN <<rows[1]>> ELSE <<>>)
         \o SelectRows(Tail(rows), Tail(mask))

\* mask_category: the category cell, as text, contains the category name.
MaskCategory(rows, category) ==
    [i \in 1..Len(rows) |->
        StrContains(AsTypeStr(rows[i][CategoryCol]), CategoryText(category))]

\* A variant of MaskDistance with the bound excluded (< for <=).
MaskDistanceStrict(rows) ==
    [i \in 1..Len(rows) |->
        \E d \in ToNumeric(rows[i][DistanceCol]) : d < DistanceLimit]

\* mask_distance: the distance cell parses to a number that is <= 500
\* (a comparison with NaN is False).
MaskDistance(rows) ==
    [i \in 1..Len(rows) |->
        \E d \in ToNumeric(rows[i][DistanceCol]) : d <= DistanceLimit]

\* The rows of df_filtered for one category.
FilterRows(rows, category) ==
    IF category = "ECNB"
    THEN SelectRows(rows, [i \in 1..Len(rows) |->
                              MaskCategory(rows, category)[i] /\ MaskDistance(rows)[i]])
    ELSE SelectRows(rows, MaskCategory(rows, category))

\* missing: the names among pivot_cols_base + [time_col_name] that are no column.
MissingColumns(columns) ==
    {c \in {pivot_cols_base[i] : i \in 1..Len(pivot_cols_base)} \cup {columns[TimeCol]} :
        ~HasColumn(columns, c)}

\* --------------------------------------------------------- aggregation

\* The group key of a row: its cells in the columns named by pivot_cols_base.
GroupKey(columns, row) ==
    [k \in 1..Len(pivot_cols_base) |-> row[ColumnIndex(columns, pivot_cols_base[k])]]

\* Lexicographic order of two tuples of texts, on the first n positions.
RECURSIVE TupleLess(_, _, _, _)
TupleLess(a, b, k, n) ==
    IF k > n THEN FALSE
    ELSE IF a[k] = b[k] THEN TupleLess(a, b, k + 1, n)
    ELSE StrLess(a[k], b[k])

\* The elements of a finite set of tuples in ascending order.
RECURSIVE SortedKeys(_)
SortedKeys(S) ==
    IF S = {} THEN <<>>
    ELSE LET m == CHOOSE x \in S : \A y \in S : y = x \/ TupleLess(x, y, 1, Len(x))
         IN <<m>> \o SortedKeys(S \ {m})

\* A variant of Aggregate without the grouping: one row per keyed record.
AggregateNoGroup(columns, rows) ==
    LET keyed == SelectRows(rows, [i \in 1..Len(rows) |->
                    \A k \in 1..Len(pivot_cols_base) : ~IsNa(GroupKey(columns, rows[i])[k])])
    IN [g \in 1..Len(keyed) |->
           GroupKey(columns, keyed[g]) \o <<StrfTime(ToDatetime(keyed[g][TimeCol]))>>]

\* groupby(pivot_cols_base)[time_col_name].min().reset_index(), then the time
\* column formatted: one row <<Company, Name, Account, DU ID, time>> per group,
\* in key order.  groupby leaves out (dropna) every row with a missing key cell.
Aggregate(columns, rows) ==
    LET keyed == {i \in 1..Len(rows) :
                    \A k \in 1..Len(pivot_cols_base) : ~IsNa(GroupKey(columns, rows[i])[k])}
        keys == SortedKeys({GroupKey(columns, rows[i]) : i \in keyed})
        times(key) == {ToDatetime(rows[i][TimeCol]) :
                          i \in {j \in keyed : GroupKey(columns, rows[j]) = key}}
    IN [g \in 1..Len(keys) |-> keys[g] \o <<StrfTime(TsMin(times(keys[g])))>>]

\* --------------------------------------------------- create_pivot_view

\* sort_values(by=group_cols): a stable insertion sort on all group columns.
RECURSIVE InsertRow(_, _)
InsertRow(sorted, row) ==
    IF sorted = <<>> THEN <<row>>
    ELSE IF TupleLess(row, sorted[1], 1, Len(row)) THEN <<row>> \o sorted
    ELSE <<sorted[1]>> \o InsertRow(Tail(sorted), row)

RECURSIVE SortValues(_)
SortValues(rows) ==
    IF rows = <<>> THEN <<>>
    ELSE InsertRow(SortValues(SubSeq(rows, 1, Len(rows) - 1)), rows[Len(rows)])

\* prev_row before the first row: every entry None.
NoPrevRow == <<>>

\* A variant of MaskFrom without the is_parent_same flag: a cell is blanked
\* whenever it equals the cell above.
RECURSIVE MaskFromAnyEqual(_, _, _, _)
MaskFromAnyEqual(row, prev_row, col, is_parent_same) ==
    IF col > Len(row) THEN <<>>
    ELSE IF col < Len(row) /\ prev_row # NoPrevRow /\ row[col] = prev_row[col]
         THEN << <<>> >> \o MaskFromAnyEqual(row, prev_row, col + 1, is_parent_same)
         ELSE <<row[col]>> \o MaskFromAnyEqual(row, prev_row, col + 1, is_parent_same)

\* A variant of MaskFrom that stores the value in prev_row before comparing, so
\* that the comparison always succeeds while the flag is up.
RECURSIVE MaskFromStalePrev(_, _, _, _)
MaskFromStalePrev(row, prev_row, col, is_parent_same) ==
    IF col > Len(row) THEN <<>>
    ELSE IF col < Len(row)
         THEN IF is_parent_same /\ prev_row # NoPrevRow
              THEN << <<>> >> \o MaskFromStalePrev(row, prev_row, col + 1, TRUE)
              ELSE <<row[col]>> \o MaskFromStalePrev(row, prev_row, col + 1, FALSE)
         ELSE <<row[col]>> \o MaskFromStalePrev(row, prev_row, col + 1, is_parent_same)

\* The inner loop over group_cols for one row, from column col on, is_parent_same
\* being the flag's value there: a mask column (all but the last) is blanked while
\* the flag is up and the value equals prev_row's, else shown and the flag drops.
RECURSIVE MaskFrom(_, _, _, _)
MaskFrom(row, prev_row, col, is_parent_same) ==
    IF col > Len(row) THEN <<>>
    ELSE IF col < Len(row)
         THEN IF is_parent_same /\ prev_row # NoPrevRow /\ row[col] = prev_row[col]
              THEN << <<>> >> \o MaskFrom(row, prev_row, col + 1, TRUE)
              ELSE <<row[col]>> \o MaskFrom(row, prev_row, col + 1, FALSE)
         ELSE <<row[col]>> \o MaskFrom(row, prev_row, col + 1, is_parent_same)

MaskRow(row, prev_row) == MaskFrom(row, prev_row, 1, TRUE)

\* create_pivot_view(df_input, group_cols): (df_sorted, the masked display rows)
create_pivot_view(df_input) ==
    LET filled == [i \in 1..Len(df_input) |->
                      [k \in 1..Len(df_input[i]) |-> FillNa(df_input[i][k])]]
        df_sorted == SortValues(filled)
    IN [sorted |-> df_sorted,
        display |-> [i \in 1..Len(df_sorted) |->
                        MaskRow(df_sorted[i],
                                IF i = 1 THEN NoPrevRow ELSE df_sorted[i - 1])]]

\* ------------------------------------------------------ pivot sheet

DuIdCol == 4

\* A variant of IsDuplicateDu that looks at the neighbouring rows only.
IsDuplicateDuAdjacent(df_sorted, i) ==
    \E j \in {i - 1, i + 1} \cap (1..Len(df_sorted)) :
        df_sorted[j][DuIdCol] = df_sorted[i][DuIdCol]

\* is_duplicate_du for the row at position i of df_sorted.
IsDuplicateDu(df_sorted, i) ==
    Cardinality({j \in 1..Len(df_sorted) : df_sorted[j][DuIdCol] = df_sorted[i][DuIdCol]}) > 1

\* A variant of IsNewSubcon without the test for the first row.
IsNewSubconAnyRow(df_display, i) == df_display[i][1] # <<>>

\* is_new_subcon for display row i (row_idx = i - 1).
IsNewSubcon(df_display, i) == df_display[i][1] # <<>> /\ i - 1 > 0

\* The format of one cell (col_idx = col - 1).
CellFmt(is_new_subcon, col, cell_value, is_duplicate_du) ==
    IF is_new_subcon
    THEN IF col - 1 = 0 /\ cell_value # <<>> THEN "fmt_bold_thick"
         ELSE IF col - 1 = 3 /\ is_duplicate_du THEN "fmt_orange_thick"
         ELSE "fmt_std_thick"
    ELSE IF col - 1 = 0 /\ cell_value # <<>> THEN "fmt_bold"
         ELSE IF col - 1 = 3 /\ is_duplicate_du THEN "fmt_orange"
         ELSE "fmt_std"

\* The formats of the cells written for the display rows.
PivotFormats(df_sorted, df_display) ==
    [i \in 1..Len(df_display) |->
        [col \in 1..Len(df_display[i]) |->
            CellFmt(IsNewSubcon(df_display, i), col, df_display[i][col],
                    IsDuplicateDu(df_sorted, i))]]

\* ---------------------------------------------------------- summary

\* A variant of Summary that counts a company's records (count for nunique).
SummaryCount(columns, rows) ==
    LET co == ColumnIndex(columns, pivot_cols_base[1])
        nm == ColumnIndex(columns, pivot_cols_base[2])
        companies == SortedKeys({<<rows[i][co]>> : i \in {j \in 1..Len(rows) : ~IsNa(rows[j][co])}})
        records(c) == {i \in 1..Len(rows) : rows[i][co] = c /\ ~IsNa(rows[i][nm])}
    IN [g \in 1..Len(companies) |-> <<companies[g][1], Cardinality(records(companies[g][1]))>>]

\* df_filtered.groupby("Company")["Name"].nunique().reset_index(): one row
\* <<company, count>> per company in order; groupby leaves out rows whose Company
\* is missing and nunique does not count a missing Name.
Summary(columns, rows) ==
    LET co == ColumnIndex(columns, pivot_cols_base[1])
        nm == ColumnIndex(columns, pivot_cols_base[2])
        companies == SortedKeys({<<rows[i][co]>> : i \in {j \in 1..Len(rows) : ~IsNa(rows[j][co])}})
        names(c) == {rows[i][nm] : i \in {j \in 1..Len(rows) : rows[j][co] = c}} \ {NaN}
    IN [g \in 1..Len(companies) |-> <<companies[g][1], Cardinality(names(companies[g][1]))>>]

RECURSIVE SumCounts(_)
SumCounts(summary) ==
    IF summary = <<>> THEN 0 ELSE summary[1][2] + SumCounts(Tail(summary))

\* The sheet row (0-based) of the "Grand Total" line: last_row + 1, last_row
\* being 3 before the loop and idx + 3 after each summary row.
TotalRow(summary) == (IF summary = <<>> THEN 3 ELSE (Len(summary) - 1) + 3) + 1

\* ------------------------------------------------------------ the run

VARIABLES
    pc,             \* where the script is
    uploaded_file,  \* <<>> (no upload) or <<the uploaded workbook>>
    df_source,      \* the source table, columns stripped
    category,       \* position in categories of the one being processed (0: none yet)
    df_filtered,    \* the rows of df_filtered
    df_aggregated,  \* the rows of df_aggregated
    df_sorted,      \* create_pivot_view's first result
    df_display,     \* create_pivot_view's second result
    writer,         \* the sheets written to the workbook so far, by name
    errors,         \* the st.error messages shown
    offered         \* whether the download button has been shown

vars ==
    <<pc, uploaded_file, df_source, category, df_filtered, df_aggregated,
      df_sorted, df_display, writer, errors, offered>>

NoTable == [columns |-> <<>>, rows |-> <<>>]

NoSheets == [n \in {} |-> <<>>]

\* f with sheet name n set to content c.
WithSheet(f, n, c) == [m \in DOMAIN f \cup {n} |-> IF m = n THEN c ELSE f[m]]

\* The script's variables are gone when the run ends.
DiscardLocals ==
    /\ df_source' = NoTable
    /\ category' = 0
    /\ df_filtered' = <<>>
    /\ df_aggregated' = <<>>
    /\ df_sorted' = <<>>
    /\ df_display' = <<>>

\* st.stop() after st.error(msg): the run ends; the workbook under construction
\* is never handed out.
StopWith(msg) ==
    /\ errors' = Append(errors, msg)
    /\ pc' = "stopped"
    /\ writer' = NoSheets
    /\ DiscardLocals
    /\ UNCHANGED <<uploaded_file, offered>>

\* Lines 126-127: no file uploaded, the hint is shown and nothing else happens.
ShowHint ==
    /\ pc = "start"
    /\ uploaded_file = <<>>
    /\ pc' = "done"
    /\ UNCHANGED <<uploaded_file, df_source, category, df_filtered, df_aggregated,
                   df_sorted, df_display, writer, errors, offered>>

\* Lines 132-137: the workbook has no sheet "Clock Detail Report".
StopMissingSheet ==
    /\ pc = "start"
    /\ uploaded_file # <<>>
    /\ source_sheet_name \notin uploaded_file[1].sheets
    /\ StopWith("missing sheet")

\* Lines 132-142: the source sheet is read and its header stripped.
LoadSource ==
    /\ pc = "start"
    /\ uploaded_file # <<>>
    /\ source_sheet_name \in uploaded_file[1].sheets
    /\ df_source' = [columns |-> StripColumns(uploaded_file[1].columns),
                     rows |-> uploaded_file[1].rows]
    /\ pc' = "write_originals"
    /\ UNCHANGED <<uploaded_file, category, df_filtered, df_aggregated, df_sorted,
                   df_display, writer, errors, offered>>

\* Lines 164-169: every original sheet is written; the category loop starts.
WriteOriginals ==
    /\ pc = "write_originals"
    /\ writer' = [n \in uploaded_file[1].sheets |-> [kind |-> "original"]]
    /\ category' = 1
    /\ pc' = "check_columns"
    /\ UNCHANGED <<uploaded_file, df_source, df_filtered, df_aggregated, df_sorted,
                   df_display, errors, offered>>

\* Lines 170-172.
StopFewColumns ==
    /\ pc = "check_columns"
    /\ Len(df_source.columns) < MinColumns
    /\ StopWith("fewer than 9 columns")

\* Lines 174-184: the category's rows are selected and written as "Data <category>".
FilterCategory ==
    /\ pc = "check_columns"
    /\ Len(df_source.columns) >= MinColumns
    /\ LET rows == FilterRows(df_source.rows, categories[category])
       IN /\ df_filtered' = rows
          /\ writer' = WithSheet(writer, DataSheetName(categories[category]),
                                 [kind |-> "data", columns |-> df_source.columns,
                                  rows |-> rows])
    /\ pc' = "check_missing"
    /\ UNCHANGED <<uploaded_file, df_source, category, df_aggregated, df_sorted,
                   df_display, errors, offered>>

\* Lines 187-193.
StopMissingColumns ==
    /\ pc = "check_missing"
    /\ MissingColumns(df_source.columns) # {}
    /\ StopWith("missing columns")

\* Lines 195-200.
AggregateTimes ==
    /\ pc = "check_missing"
    /\ MissingColumns(df_source.columns) = {}
    /\ df_aggregated' = Aggregate(df_source.columns, df_filtered)
    /\ pc' = "pivot_view"
    /\ UNCHANGED <<uploaded_file, df_source, category, df_filtered, df_sorted,
                   df_display, writer, errors, offered>>

\* Line 202.
CreatePivotView ==
    /\ pc = "pivot_view"
    /\ LET view == create_pivot_view(df_aggregated)
       IN /\ df_sorted' = view.sorted
          /\ df_display' = view.display
    /\ pc' = "write_pivot"
    /\ UNCHANGED <<uploaded_file, df_source, category, df_filtered, df_aggregated,
                   writer, errors, offered>>

\* Lines 204-238: the pivot sheet, its header and its formatted rows.
WritePivot ==
    /\ pc = "write_pivot"
    /\ writer' = WithSheet(writer, PivotSheetName(categories[category]),
                           [kind |-> "pivot",
                            header |-> pivot_cols_base \o <<df_source.columns[TimeCol]>>,
                            rows |-> df_display,
                            formats |-> PivotFormats(df_sorted, df_display),
                            has_summary |-> FALSE,
                            summary |-> <<>>,
                            total_row |-> 0,
                            total_count |-> 0])
    /\ pc' = "summary"
    /\ UNCHANGED <<uploaded_file, df_source, category, df_filtered, df_aggregated,
                   df_sorted, df_display, errors, offered>>

\* Lines 240-258: the summary table and its Grand Total line, beside the pivot.
WriteSummary ==
    /\ pc = "summary"
    /\ LET summary == Summary(df_source.columns, df_filtered)
           name == PivotSheetName(categories[category])
       IN writer' = WithSheet(writer, name,
                              [writer[name] EXCEPT !.has_summary = TRUE,
                                                   !.summary = summary,
                                                   !.total_row = TotalRow(summary),
                                                   !.total_count = SumCounts(summary)])
    /\ pc' = "next_category"
    /\ UNCHANGED <<uploaded_file, df_source, category, df_filtered, df_aggregated,
                   df_sorted, df_display, errors, offered>>

\* Line 169: the loop goes on to the next category.
NextCategory ==
    /\ pc = "next_category"
    /\ category < Len(categories)
    /\ category' = category + 1
    /\ pc' = "check_columns"
    /\ UNCHANGED <<uploaded_file, df_source, df_filtered, df_aggregated, df_sorted,
                   df_display, writer, errors, offered>>

\* A variant of OfferDownload that does not wait for the last category.
OfferDownloadEarly ==
    /\ pc = "next_category"
    /\ offered' = TRUE
    /\ pc' = "done"
    /\ DiscardLocals
    /\ UNCHANGED <<uploaded_file, writer, errors>>

\* Lines 260-276: after the last category the workbook is closed and offered.
OfferDownload ==
    /\ pc = "next_category"
    /\ category = Len(categories)
    /\ offered' = TRUE
    /\ pc' = "done"
    /\ DiscardLocals
    /\ UNCHANGED <<uploaded_file, writer, errors>>

\* The positions inside the try block (lines 130-276).
InTry ==
    \/ pc = "start" /\ uploaded_file # <<>>
    \/ pc \in {"write_originals", "check_columns", "check_missing", "pivot_view",
               "write_pivot", "summary", "next_category"}

\* Lines 278-279: any exception raised in the try block is reported.
RaiseException ==
    /\ InTry
    /\ errors' = Append(errors, "An error occurred")
    /\ pc' = "failed"
    /\ writer' = NoSheets
    /\ DiscardLocals
    /\ UNCHANGED <<uploaded_file, offered>>

Next ==
    \/ ShowHint
    \/ StopMissingSheet
    \/ LoadSource
    \/ WriteOriginals
    \/ StopFewColumns
    \/ FilterCategory
    \/ StopMissingColumns
    \/ AggregateTimes
    \/ CreatePivotView
    \/ WritePivot
    \/ WriteSummary
    \/ NextCategory
    \/ OfferDownload
    \/ RaiseException

\* ------------------------------------------------------------- inputs

\* The header of a well-formed source sheet: Company, Name, Account, DU ID, the
\* time column (5th), the distance column (6th), two more, the category column (9th).
PlainHeader ==
    pivot_cols_base \o
    << <<"C", "l", "o", "c", "k">>, <<"D", "i", "s", "t">>, <<"L", "a", "t">>,
       <<"L", "o", "n", "g">>, <<"T", "y", "p", "e">> >>

\* The same header with blanks around some cells, as exports often have.
PaddedHeader ==
    [PlainHeader EXCEPT ![1] = <<" ">> \o @ \o <<" ">>, ![4] = @ \o <<" ", " ">>]

\* A header one column short: the category column is not there.
ShortHeader == SubSeq(PlainHeader, 1, Len(PlainHeader) - 1)

\* A header whose "DU ID" column is spelled otherwise.
RenamedHeader == [PlainHeader EXCEPT ![4] = <<"D", "U", "I", "D">>]

\* One source row.
SourceRow(company, name, account, du_id, time, distance, cat) ==
    <<company, name, account, du_id, time, distance, NaN, NaN, cat>>

\* All tables of at most n rows drawn from the rows U.
Tables(U, n) == UNION {[1..k -> U] : k \in 0..n}

\* The uploads drawn from the rows U: every table of at most n rows under the
\* plain header, the small ones also under the padded header, and the malformed
\* workbooks (no source sheet, a short header, a renamed column).
Uploads(U, n) ==
    {[sheets |-> {source_sheet_name, "Notes"}, columns |-> PlainHeader, rows |-> t] :
        t \in Tables(U, n)}
    \cup {[sheets |-> {source_sheet_name}, columns |-> PaddedHeader, rows |-> t] :
            t \in Tables(U, 1)}
    \cup {[sheets |-> {"Sheet1"}, columns |-> PlainHeader, rows |-> t] :
            t \in Tables(U, 1)}
    \cup {[sheets |-> {source_sheet_name}, columns |-> ShortHeader,
           rows |-> [i \in 1..Len(t) |-> SubSeq(t[i], 1, Len(ShortHeader))]] :
            t \in Tables(U, 1)}
    \cup {[sheets |-> {source_sheet_name}, columns |-> RenamedHeader, rows |-> t] :
            t \in Tables(U, 1)}

\* The state when the script starts: nothing uploaded, or one of the uploads.
InitWith(uploads) ==
    /\ pc = "start"
    /\ uploaded_file \in {<<>>} \cup {<<f>> : f \in uploads}
    /\ df_source = NoTable
    /\ category = 0
    /\ df_filtered = <<>>
    /\ df_aggregated = <<>>
    /\ df_sorted = <<>>
    /\ df_display = <<>>
    /\ writer = NoSheets
    /\ errors = <<>>
    /\ offered = FALSE

CoA == <<"A", "c", "m", "e">>
CoB == <<"B", "o", "l", "t">>
NmJ == <<"J", "o">>
NmR == <<"R", "e", "n">>
Ac1 == <<"A", "1">>
Ac2 == <<"A", "2">>
Du1 == <<"D", "1">>
Du2 == <<"D", "2">>

\* Time cells: day 1 at 09:15, day 1 at 08:00, day 2 at 07:30 (a later day with
\* an earlier time of day), an empty cell, a cell that is no date-time.
TimeCells == {<<1, 9, 15>>, <<1, 8, 0>>, <<2, 7, 30>>, <<>>}

\* Distance cells: 500, 501, a text that is no number, an empty cell.
DistanceCells == {<<"5", "0", "0">>, <<"5", "0", "1">>, <<"f", "a", "r">>, NaN}

\* Category cells: "ECNB-E", "ecnb", "xECMW", "Ecmw ecNB", and an empty cell,
\* which astype(str) turns into the text "nan".
CategoryCells ==
    {<<"E", "C", "N", "B", "-", "E">>, <<"e", "c", "n", "b">>,
     <<"x", "E", "C", "M", "W">>, <<"E", "c", "m", "w", " ", "e", "c", "N", "B">>, NaN}

MaxFilterRows == 2

MaxTimeRows == 3

MaxPivotRows == 3

MaxSummaryRows == 2

\* Rows that differ in category and distance.
FilterFamily ==
    {SourceRow(CoA, NmJ, Ac1, Du1, <<1, 8, 0>>, d, c) :
        d \in DistanceCells, c \in CategoryCells}

\* Rows of two groups that differ in the time cell.
TimeFamily ==
    {SourceRow(CoA, NmJ, Ac1, du, t, <<"3", "0", "0">>, <<"E", "C", "N", "B">>) :
        du \in {Du1, Du2}, t \in TimeCells}

\* Rows that differ in the hierarchy key: two companies, two names, and a DU ID
\* met under one account, a second DU ID under it, the first under a second account.
PivotFamily ==
    {SourceRow(co, nm, ad[1], ad[2], <<1, 8, 0>>, NaN, <<"E", "C", "M", "W">>) :
        co \in {CoA, CoB}, nm \in {NmJ, NmR},
        ad \in {<<Ac1, Du1>>, <<Ac1, Du2>>, <<Ac2, Du1>>}}

\* Rows that differ in company, name and DU ID, each possibly missing.
SummaryFamily ==
    {SourceRow(co, nm, Ac1, du, <<1, 8, 0>>, NaN, <<"E", "C", "M", "W">>) :
        co \in {CoA, CoB, NaN}, nm \in {NmJ, NmR, NaN}, du \in {Du1, NaN}}

Init == InitWith(Uploads(FilterFamily, MaxFilterRows))

InitTimes == InitWith(Uploads(TimeFamily, MaxTimeRows))

InitPivot == InitWith(Uploads(PivotFamily, MaxPivotRows))

InitSummary == InitWith(Uploads(SummaryFamily, MaxSummaryRows))

Spec == Init /\ [][Next]_vars

SpecTimes == InitTimes /\ [][Next]_vars

SpecPivot == InitPivot /\ [][Next]_vars

SpecSummary == InitSummary /\ [][Next]_vars

\* ------------------------------------------------------------- claims

ECNB == <<"E", "C", "N", "B">>

ECMW == <<"E", "C", "M", "W">>

\* The rows of the uploaded source sheet.
SourceRows == uploaded_file[1].rows

\* Whether a row belongs to a category, as the specification words it: the
\* category cell (9th) contains the name in any case and, for ECNB only, the
\* distance cell (6th) parses to a number that is at most 500.
Belongs(row, c) ==
    IF c = "ECNB"
    THEN StrContains(AsTypeStr(row[9]), ECNB) /\ \E d \in ToNumeric(row[6]) : d <= 500
    ELSE StrContains(AsTypeStr(row[9]), ECMW)

\* C1: a source row appears in "Data ECNB" iff its category cell contains "ECNB"
\* in any case and its distance parses to a number <= 500, and in "Data ECMW" iff
\* its category cell contains "ECMW" in any case, whatever its distance; each
\* sheet holds as many rows as the source has rows that belong.
C1_FilterMembership ==
    \A c \in {"ECNB", "ECMW"} :
        DataSheetName(c) \in DOMAIN writer =>
            LET data == writer[DataSheetName(c)].rows
            IN /\ \A i \in 1..Len(SourceRows) :
                     (\E k \in 1..Len(data) : data[k] = SourceRows[i])
                         <=> Belongs(SourceRows[i], c)
               /\ Len(data) = Cardinality({i \in 1..Len(SourceRows) : Belongs(SourceRows[i], c)})

\* C1's case: the workbook is offered; a row "Ecmw ecNB" with an unparseable
\* distance is in Data ECMW and not in Data ECNB, and a lower-case "ecnb" row
\* at distance 500 is in Data ECNB.
C1_Witness ==
    /\ offered
    /\ \E k \in 1..Len(writer["Data ECMW"].rows) :
          LET r == writer["Data ECMW"].rows[k]
          IN /\ r[9] = <<"E", "c", "m", "w", " ", "e", "c", "N", "B">>
             /\ r[6] = <<"f", "a", "r">>
             /\ \A j \in 1..Len(writer["Data ECNB"].rows) : writer["Data ECNB"].rows[j] # r
    /\ \E k \in 1..Len(writer["Data ECNB"].rows) :
          /\ writer["Data ECNB"].rows[k][9] = <<"e", "c", "n", "b">>
          /\ writer["Data ECNB"].rows[k][6] = <<"5", "0", "0">>

\* The sheets of one category are all written, summary included.
CategoryComplete(c) ==
    /\ DataSheetName(c) \in DOMAIN writer
    /\ PivotSheetName(c) \in DOMAIN writer
    /\ writer[PivotSheetName(c)].has_summary

\* An upload the build must refuse: no source sheet, fewer than 9 columns, or a
\* required column missing after the header is stripped.
Refused(f) ==
    \/ "Clock Detail Report" \notin f.sheets
    \/ Len(f.columns) < 9
    \/ \E c \in {pivot_cols_base[i] : i \in 1..4} :
          \A i \in 1..Len(f.columns) : Strip(f.columns[i]) # c

\* C8: the workbook is offered only once both categories have their Data sheet,
\* Pivot sheet and summary written and no error was reported; a run that reported
\* an error never offers anything; a refused upload is never offered and its run
\* can only end stopped or failed, with an error shown; and when the source has
\* fewer than 9 columns no category is ever filtered.
C8_AllOrNothing ==
    /\ offered =>
          /\ pc = "done"
          /\ errors = <<>>
          /\ \A c \in {"ECNB", "ECMW"} : CategoryComplete(c)
          /\ uploaded_file[1].sheets \subseteq DOMAIN writer
    /\ errors # <<>> => ~offered /\ pc \in {"stopped", "failed"}
    /\ pc \in {"stopped", "failed"} => errors # <<>> /\ ~offered
    /\ uploaded_file # <<>> /\ Refused(uploaded_file[1]) =>
          /\ ~offered
          /\ pc # "done"
    /\ pc = "done" /\ uploaded_file # <<>> => offered
    /\ uploaded_file # <<>> /\ Len(uploaded_file[1].columns) < 9 =>
          /\ df_filtered = <<>>
          /\ \A c \in {"ECNB", "ECMW"} : DataSheetName(c) \notin DOMAIN writer

\* C8's case: a workbook offered with both categories complete.
C8_Witness ==
    /\ offered
    /\ \A c \in {"ECNB", "ECMW"} : CategoryComplete(c)
    /\ writer["Data ECNB"].rows # <<>>
    /\ writer["Data ECMW"].rows # <<>>

\* The hierarchy key of a source row (its first four cells) and of an aggregated
\* or pivot row.
KeyOf(row) == SubSeq(row, 1, 4)

\* The parsed time values of the filtered records of one group.
ParsedTimes(key) ==
    {df_filtered[i][5] :
        i \in {m \in 1..Len(df_filtered) :
                  KeyOf(df_filtered[m]) = key /\ Len(df_filtered[m][5]) = 3}}

\* a is not later than b, as date-times <<day, hour, minute>>.
NotLater(a, b) ==
    \/ a[1] < b[1]
    \/ a[1] = b[1] /\ (a[2] < b[2] \/ (a[2] = b[2] /\ a[3] <= b[3]))

\* HH:MM:00 written out with two digits each.
Clock(h, m) ==
    <<Digits[(h \div 10) + 1], Digits[(h % 10) + 1], ":",
      Digits[(m \div 10) + 1], Digits[(m % 10) + 1], ":", "0", "0">>

\* C2: once the times are aggregated, every group shows the time of day
\* (HH:MM:SS) of the earliest date-time among its records' parseable time cells,
\* and "-" when none of them parses.
C2_EarliestTime ==
    pc = "pivot_view" =>
        \A g \in 1..Len(df_aggregated) :
            LET parsed == ParsedTimes(KeyOf(df_aggregated[g]))
            IN IF parsed = {}
               THEN df_aggregated[g][5] = <<"-">>
               ELSE \E m \in parsed :
                       /\ \A o \in parsed : NotLater(m, o)
                       /\ df_aggregated[g][5] = Clock(m[2], m[3])

\* C2's case: one group with records on day 2 at 07:30 and day 1 at 09:15 shows
\* 09:15:00, and another group, none of whose time cells parses, shows "-".
C2_Witness ==
    /\ pc = "pivot_view"
    /\ Len(df_aggregated) = 2
    /\ ParsedTimes(KeyOf(df_aggregated[1])) = {<<2, 7, 30>>, <<1, 9, 15>>}
    /\ df_aggregated[1][5] = <<"0", "9", ":", "1", "5", ":", "0", "0">>
    /\ ParsedTimes(KeyOf(df_aggregated[2])) = {}
    /\ df_aggregated[2][5] = <<"-">>

\* A hierarchy cell with a missing value read as the empty text.
Blanked(key) == [k \in 1..4 |-> IF key[k] = NaN THEN <<>> ELSE key[k]]

\* C3: the aggregated set holds exactly one row for every distinct hierarchy key
\* among the filtered records, a missing value counting as the empty text: no two
\* aggregated rows share a key and no filtered record's key is absent.
C3_OneRowPerKey ==
    pc = "pivot_view" =>
        /\ \A g, h \in 1..Len(df_aggregated) :
              KeyOf(df_aggregated[g]) = KeyOf(df_aggregated[h]) => g = h
        /\ {KeyOf(df_aggregated[g]) : g \in 1..Len(df_aggregated)}
              = {Blanked(KeyOf(df_filtered[i])) : i \in 1..Len(df_filtered)}

\* C4: in the pivot view a hierarchy cell (columns 1-4) of row i is empty iff row
\* i has a predecessor and equals it on that column and on every column to its
\* left; otherwise it shows the row's value; the time cell always shows the value.
C4_PrefixMasking ==
    pc = "write_pivot" =>
        /\ Len(df_display) = Len(df_sorted)
        /\ \A i \in 1..Len(df_sorted) :
              /\ \A f \in 1..4 :
                    LET same == i > 1 /\ \A g \in 1..f : df_sorted[i][g] = df_sorted[i - 1][g]
                    IN /\ df_display[i][f] = <<>> <=> same
                       /\ ~same => df_display[i][f] = df_sorted[i][f]
              /\ df_display[i][5] = df_sorted[i][5]

\* C4's case: the second row shares Company and Name with the first and differs
\* in Account: Company and Name are blank, Account and DU ID shown; the third
\* row starts another company and shows its Name though it equals the row above.
C4_Witness ==
    /\ pc = "write_pivot"
    /\ Len(df_sorted) = 3
    /\ df_sorted[1] = <<CoA, NmJ, Ac1, Du1, Clock(8, 0)>>
    /\ df_sorted[2] = <<CoA, NmJ, Ac2, Du1, Clock(8, 0)>>
    /\ df_sorted[3] = <<CoB, NmJ, Ac2, Du1, Clock(8, 0)>>
    /\ df_display[1] = df_sorted[1]
    /\ df_display[2] = << <<>>, <<>>, Ac2, Du1, Clock(8, 0)>>
    /\ df_display[3] = df_sorted[3]

\* The nearest non-empty value at or above row i in column f of the pivot view.
FillDown(i, f) ==
    LET shown == {j \in 1..i : df_display[j][f] # <<>>}
    IN IF shown = {} THEN <<>>
       ELSE df_display[CHOOSE j \in shown : \A k \in shown : k <= j][f]

\* C5: replacing each empty hierarchy cell of the pivot view by the nearest
\* non-empty value above it in its column gives back, row for row, the hierarchy
\* values of the sorted aggregate.
C5_RoundTrip ==
    pc = "write_pivot" =>
        /\ Len(df_display) = Len(df_sorted)
        /\ \A i \in 1..Len(df_sorted) : \A f \in 1..4 : FillDown(i, f) = df_sorted[i][f]

\* C5's case: a view of three rows in which some cell is masked two rows deep.
C5_Witness ==
    /\ pc = "write_pivot"
    /\ Len(df_display) = 3
    /\ df_display[2][1] = <<>>
    /\ df_display[3][1] = <<>>
    /\ df_display[3][2] # <<>>
    /\ FillDown(3, 1) = df_sorted[1][1]

\* The written pivot sheet of the category in progress.
PivotSheet == writer[PivotSheetName(categories[category])]

Highlighted(fmt) == fmt \in {"fmt_orange", "fmt_orange_thick"}

Thick(fmt) == fmt \in {"fmt_std_thick", "fmt_bold_thick", "fmt_orange_thick"}

Bold(fmt) == fmt \in {"fmt_bold", "fmt_bold_thick"}

\* C6: once the pivot rows are written, the DU ID cell of row i is highlighted iff
\* another row of the sorted aggregate has the same DU ID, wherever it is; the
\* rows written are the pivot view's, in its order.
C6_DuplicateLeaf ==
    pc = "summary" =>
        /\ PivotSheet.rows = df_display
        /\ Len(PivotSheet.formats) = Len(df_sorted)
        /\ \A i \in 1..Len(df_sorted) :
              Highlighted(PivotSheet.formats[i][4])
                  <=> \E j \in 1..Len(df_sorted) : j # i /\ df_sorted[j][4] = df_sorted[i][4]

\* C6's case: the first and third row share a DU ID that the row between them
\* does not have: both are highlighted, the middle one is not.
C6_Witness ==
    /\ pc = "summary"
    /\ Len(df_sorted) = 3
    /\ df_sorted[1][4] = df_sorted[3][4]
    /\ df_sorted[2][4] # df_sorted[1][4]
    /\ Highlighted(PivotSheet.formats[1][4])
    /\ ~Highlighted(PivotSheet.formats[2][4])
    /\ Highlighted(PivotSheet.formats[3][4])

\* C9: the company cell is shown on exactly the first row of each company's rows;
\* a row has the heavy top border iff its company cell is shown and it is not the
\* first row; the company cell is bold iff it is shown, so that row 1 is bold
\* without the heavy border; and the DU ID cell of a bordered row that is flagged
\* duplicate carries both the border and the highlight.
C9_CompanyBoundary ==
    pc = "summary" =>
        LET rows == PivotSheet.rows
            fmts == PivotSheet.formats
        IN /\ \A i \in 1..Len(rows) :
                 /\ rows[i][1] # <<>> <=>
                        \A j \in 1..(i - 1) : df_sorted[j][1] # df_sorted[i][1]
                 /\ \A col \in 1..5 : Thick(fmts[i][col]) <=> (rows[i][1] # <<>> /\ i > 1)
                 /\ Bold(fmts[i][1]) <=> rows[i][1] # <<>>
                 /\ \A col \in 2..5 : ~Bold(fmts[i][col])
                 /\ (rows[i][1] # <<>> /\ i > 1
                     /\ \E j \in 1..Len(rows) : j # i /\ df_sorted[j][4] = df_sorted[i][4])
                        => fmts[i][4] = "fmt_orange_thick"
           /\ Cardinality({i \in 1..Len(rows) : rows[i][1] # <<>>})
                 = Cardinality({df_sorted[i][1] : i \in 1..Len(df_sorted)})
           /\ Len(rows) > 0 => fmts[1][1] = "fmt_bold"

\* C9's case: a second company starts at row 3 with a DU ID seen before: row 1
\* is bold and not bordered, row 2 is neither, row 3 is bold and bordered and its
\* DU ID cell is highlighted and bordered.
C9_Witness ==
    /\ pc = "summary"
    /\ Len(df_sorted) = 3
    /\ df_sorted[1][1] = CoA /\ df_sorted[2][1] = CoA /\ df_sorted[3][1] = CoB
    /\ PivotSheet.formats[1][1] = "fmt_bold"
    /\ PivotSheet.formats[2][1] = "fmt_std"
    /\ PivotSheet.formats[3][1] = "fmt_bold_thick"
    /\ PivotSheet.formats[3][4] = "fmt_orange_thick"

\* C10: the rows given to create_pivot_view have pairwise distinct keys, and in
\* every pivot row the DU ID cell shows the row's DU ID, which is not empty, the
\* blank cells being a prefix of at most the first three columns.
C10_LeafNeverMasked ==
    pc = "write_pivot" =>
        /\ \A g, h \in 1..Len(df_aggregated) :
              KeyOf(df_aggregated[g]) = KeyOf(df_aggregated[h]) => g = h
        /\ \A i \in 1..Len(df_display) :
              /\ df_display[i][4] = df_sorted[i][4]
              /\ df_display[i][4] # <<>>
              /\ \A f \in 1..3 :
                    df_display[i][f] = <<>> => \A g \in 1..f : df_display[i][g] = <<>>

\* C10's case: a row that differs from the one above in its DU ID only: its first
\* three cells are blank and its DU ID is shown.
C10_Witness ==
    /\ pc = "write_pivot"
    /\ \E i \in 2..Len(df_display) :
          /\ KeyOf(df_display[i]) = << <<>>, <<>>, <<>>, Du2>>
          /\ KeyOf(df_sorted[i - 1]) = <<CoA, NmR, Ac1, Du1>>

\* C7: the summary beside a pivot has one row for every company among the
\* category's filtered records (a missing Company cell names no company), each
\* with the number of distinct names among that company's filtered records (a
\* missing Name cell is no name); the Grand Total line comes after them and holds
\* the sum of the counts, that is the number of distinct (company, name) pairs;
\* with no filtered rows there is no company row and the total is 0.
C7_Summary ==
    \A c \in {"ECNB", "ECMW"} :
        (PivotSheetName(c) \in DOMAIN writer /\ writer[PivotSheetName(c)].has_summary) =>
            LET rows == writer[DataSheetName(c)].rows
                sheet == writer[PivotSheetName(c)]
                companies == {rows[i][1] : i \in 1..Len(rows)} \ {NaN}
                names(co) == {rows[i][2] : i \in {j \in 1..Len(rows) : rows[j][1] = co}} \ {NaN}
            IN /\ Len(sheet.summary) = Cardinality(companies)
               /\ {sheet.summary[g][1] : g \in 1..Len(sheet.summary)} = companies
               /\ \A g \in 1..Len(sheet.summary) :
                     sheet.summary[g][2] = Cardinality(names(sheet.summary[g][1]))
               /\ sheet.total_count =
                     Cardinality({<<rows[i][1], rows[i][2]>> :
                                     i \in {j \in 1..Len(rows) :
                                               rows[j][1] # NaN /\ rows[j][2] # NaN}})
               /\ sheet.total_row > (Len(sheet.summary) - 1) + 3
               /\ rows = <<>> => sheet.summary = <<>> /\ sheet.total_count = 0

\* C7's case: two companies share one name, in records that the pivot leaves out
\* (no DU ID): the summary counts the name under both and the total is 2, while
\* the other category, with no filtered rows, has an empty summary and total 0.
C7_Witness ==
    /\ pc = "next_category"
    /\ category = 2
    /\ df_aggregated = <<>>
    /\ writer["Pivot ECMW"].summary = << <<CoA, 1>>, <<CoB, 1>> >>
    /\ writer["Pivot ECMW"].total_count = 2
    /\ writer["Data ECMW"].rows[1][2] = writer["Data ECMW"].rows[2][2]
    /\ writer["Pivot ECNB"].summary = <<>>
    /\ writer["Pivot ECNB"].total_count = 0

====
